---------------------------- MODULE Spec2Model ----------------------------
(***************************************************************************)
(* Model of salary_calculator.py.                                          *)
(*                                                                         *)
(* Numbers.  A gross salary is a Python int, a whole number of currency    *)
(* units (the command line parses it with type=int).  Rates, tax points    *)
(* and every amount computed from them are Python floats.  Each operation  *)
(* of the program is translated once and evaluated in two arithmetics:     *)
(*   "exact"   the value of the expression in exact decimal arithmetic,    *)
(*             on scaled integers: a rate in thousandths (0.004 is 4), a   *)
(*             tax-point count in hundredths (2.25 is 225), an amount in   *)
(*             thousandths of a currency unit (282.154 is 282154);         *)
(*   "double"  the IEEE 754 double the program holds: every literal is the *)
(*             double nearest to it and every operation rounds to 53       *)
(*             significant bits, ties to even.                             *)
(* The bracket engine on its own (Spec) is run on small integers and on    *)
(* the rates -0.5, 0, 0.5, 1 and 1.5, for which every double operation is  *)
(* exact, so its "exact" value is also the double the program holds.  The  *)
(* pipeline (PipelineSpec) carries both values of every amount.            *)
(*                                                                         *)
(* The class definitions are accepted by the interpreters that allow an    *)
(* unhashable dataclass instance as a field default (before Python 3.11);  *)
(* the model describes the program as those interpreters run it.           *)
(***************************************************************************)
EXTENDS Integers, Sequences, FiniteSets

VARIABLES
    tax_brackets,           \* TaxBracketsDeductionCalculator.tax_brackets
    constructed,            \* a TaxBracketsDeductionCalculator has been constructed
    called,                 \* its calculate() has returned at least once
    call_gross,             \* the argument of the last calculate() call on it
    call_result,            \* what that call computed: deduction and per-bracket taxable incomes
    deduction_calculators,  \* NetSalaryCalculator.deduction_calculators
    pc,                     \* position of the NetSalaryCalculator caller
    gross_salary,           \* argument of NetSalaryCalculator.calculate
    deductions,             \* local `deductions` of NetSalaryCalculator.calculate
    idx,                    \* position of the for loop over deduction_calculators
    calls,                  \* the rule invocations made by the running calculate()
    log,                    \* records emitted through logging.debug by the running calculate()
    net_salary,             \* value returned by NetSalaryCalculator.calculate
    run,                    \* 1: first pipeline, 2: the same rules in a permuted order
    prev,                   \* outcome of the first pipeline's calculate(), kept for comparison
    created                 \* how the caller obtained the pipeline, and with which tax_points

engineVars == <<tax_brackets, constructed, called, call_gross, call_result>>
pipelineVars == <<deduction_calculators, pc, gross_salary, deductions, idx, calls, log,
                  net_salary, run, prev, created>>
vars == <<tax_brackets, constructed, called, call_gross, call_result,
          deduction_calculators, pc, gross_salary, deductions, idx, calls, log,
          net_salary, run, prev, created>>

-----------------------------------------------------------------------------
(* Bounds of the model *)

\* longest bracket table of the generic TaxBracketsDeductionCalculator
MaxBrackets == 2
\* gross salaries tried on the generic calculator are -MaxGross..MaxGross
MaxGross == 4
\* longest rule list handed to the NetSalaryCalculator constructor
MaxRules == 2

(* Program constants *)

\* sys.maxsize, the bound of the last income-tax bracket.  Its value depends
\* on the build (2^31-1 on a 32-bit build, 2^63-1 on a 64-bit one); the model
\* takes the 32-bit value.  Every gross salary of the model lies below it.
SysMaxsize == 2147483647

TAX_POINT_VALUE == 223

\* 0.06, in thousandths
PensionRate == 60

-----------------------------------------------------------------------------
(* Helpers *)

Min(a, b) == IF a <= b THEN a ELSE b

Max(a, b) == IF a >= b THEN a ELSE b

RECURSIVE SeqSum(_)
SeqSum(s) == IF s = <<>> THEN 0 ELSE s[1] + SeqSum(Tail(s))

Sign(n) == IF n < 0 THEN -1 ELSE IF n > 0 THEN 1 ELSE 0

Magnitude(n) == IF n < 0 THEN -n ELSE n

-----------------------------------------------------------------------------
(* Python floats.  A double is held exactly, as a sign s and a magnitude m:
   its value is s * m * 2^-60, with m a natural number written in NumLimbs
   limbs of LimbBits bits, least significant first.  Every double the program
   computes from the gross salaries and rates of the model is a multiple of
   2^-60 below 2^36, and no operation overflows or underflows; the sign of a
   zero is not kept. *)

LimbBits == 12
Base == 4096
NumLimbs == 8
\* the unit 2^-60 is ScaleLimbs limbs below 1
ScaleLimbs == 5

\* 2^k for k in 0..LimbBits
Pow2(k) == << 1, 2, 4, 8, 16, 32, 64, 128, 256, 512, 1024, 2048, 4096 >>[k + 1]

NatZero == [i \in 1..NumLimbs |-> 0]

RECURSIVE AddLimbs(_, _, _, _)
AddLimbs(a, b, i, carry) ==
    IF i > Len(a) THEN <<>>
    ELSE LET t == a[i] + b[i] + carry
         IN  <<t % Base>> \o AddLimbs(a, b, i + 1, t \div Base)

NatAdd(a, b) == AddLimbs(a, b, 1, 0)

\* a - b for a >= b
RECURSIVE SubLimbs(_, _, _, _)
SubLimbs(a, b, i, borrow) ==
    IF i > Len(a) THEN <<>>
    ELSE LET t == a[i] - b[i] - borrow
         IN  <<t % Base>> \o SubLimbs(a, b, i + 1, IF t < 0 THEN 1 ELSE 0)

NatSub(a, b) == SubLimbs(a, b, 1, 0)

RECURSIVE MulLimbs(_, _, _, _)
MulLimbs(a, n, i, carry) ==
    IF i > Len(a) THEN <<>>
    ELSE LET t == a[i] * n + carry
         IN  <<t % Base>> \o MulLimbs(a, n, i + 1, t \div Base)

\* a * n for a natural n below 2^18
NatMul(a, n) == MulLimbs(a, n, 1, 0)

\* the most significant limb where a and b differ, 0 when a = b
TopDiff(a, b) ==
    LET d == { i \in 1..Len(a) : a[i] # b[i] }
    IN  IF d = {} THEN 0 ELSE CHOOSE i \in d : \A j \in d : j <= i

NatLess(a, b) == LET t == TopDiff(a, b) IN t # 0 /\ a[t] < b[t]

\* number of significant bits
BitLength(a) ==
    LET t == TopDiff(a, [i \in 1..Len(a) |-> 0])
    IN  IF t = 0 THEN 0
        ELSE LimbBits * (t - 1)
               + (CHOOSE k \in 1..LimbBits : Pow2(k - 1) <= a[t] /\ a[t] < Pow2(k))

Bit(a, k) == (a[(k \div LimbBits) + 1] \div Pow2(k % LimbBits)) % 2

\* some bit below bit k is set
LowNonZero(a, k) ==
    \/ \E i \in 1..(k \div LimbBits) : a[i] # 0
    \/ (a[(k \div LimbBits) + 1] % Pow2(k % LimbBits)) # 0

\* a with the bits below bit k cleared
ClearLow(a, k) ==
    [i \in 1..Len(a) |->
        IF i <= k \div LimbBits THEN 0
        ELSE IF i = (k \div LimbBits) + 1 THEN a[i] - (a[i] % Pow2(k % LimbBits))
        ELSE a[i]]

NatPow2(n, k) ==
    [i \in 1..n |-> IF i = (k \div LimbBits) + 1 THEN Pow2(k % LimbBits) ELSE 0]

\* round-to-nearest, ties-to-even, to 53 significant bits; `sticky` says that
\* the exact value lies strictly above a
Round53(a, sticky) ==
    LET cut == BitLength(a) - 53
    IN  IF cut <= 0 THEN a
        ELSE LET up == /\ Bit(a, cut - 1) = 1
                       /\ (sticky \/ LowNonZero(a, cut - 1) \/ Bit(a, cut) = 1)
                 low == ClearLow(a, cut)
             IN  IF up THEN NatAdd(low, NatPow2(Len(a), cut)) ELSE low

Double(s, m) == [s |-> IF m = NatZero THEN 0 ELSE s, m |-> m]

\* float(n) for an int n, |n| < 2^24
DoubleOfInt(n) ==
    Double(Sign(n),
           [i \in 1..NumLimbs |->
               IF i = ScaleLimbs + 1 THEN Magnitude(n) % Base
               ELSE IF i = ScaleLimbs + 2 THEN Magnitude(n) \div Base
               ELSE 0])

\* x + y
DoubleAdd(x, y) ==
    IF x.s = 0 THEN y
    ELSE IF y.s = 0 THEN x
    ELSE IF x.s = y.s THEN Double(x.s, Round53(NatAdd(x.m, y.m), FALSE))
    ELSE IF NatLess(x.m, y.m) THEN Double(y.s, Round53(NatSub(y.m, x.m), FALSE))
    ELSE Double(x.s, Round53(NatSub(x.m, y.m), FALSE))

DoubleNeg(x) == [s |-> -x.s, m |-> x.m]

\* x - y
DoubleSub(x, y) == DoubleAdd(x, DoubleNeg(y))

\* n * x for an int n: float(n) is exact, the product is rounded once
DoubleMulInt(n, x) ==
    Double(Sign(n) * x.s, Round53(NatMul(x.m, Magnitude(n)), FALSE))

\* long division of a by a small d, from limb i down, with remainder r so far;
\* returns the quotient limbs (most significant first) followed by the remainder
RECURSIVE DivLimbs(_, _, _, _)
DivLimbs(a, d, i, r) ==
    IF i = 0 THEN <<r>>
    ELSE LET t == r * Base + a[i]
         IN  <<t \div d>> \o DivLimbs(a, d, i - 1, t % d)

\* the double nearest to num/den, as Python reads a decimal literal; the
\* quotient is formed with one limb of extra precision
NearestDouble(num, den) ==
    LET wide == [i \in 1..(NumLimbs + 1) |->
                    IF i = ScaleLimbs + 2 THEN Magnitude(num) % Base
                    ELSE IF i = ScaleLimbs + 3 THEN Magnitude(num) \div Base
                    ELSE 0]
        qr == DivLimbs(wide, den, NumLimbs + 1, 0)
        q == [i \in 1..(NumLimbs + 1) |-> qr[NumLimbs + 2 - i]]
        r == Round53(q, qr[NumLimbs + 2] # 0)
    IN  Double(Sign(num), [i \in 1..NumLimbs |-> r[i + 1]])

\* round(x * 100), ties to even, on the exact value of x: the hundredths
\* printed by the format .2f
Hundredths(x) ==
    LET y == NatMul(x.m, 100)
        k == LimbBits * ScaleLimbs
        q == y[ScaleLimbs + 1] + y[ScaleLimbs + 2] * Base + y[ScaleLimbs + 3] * Base * Base
        up == /\ Bit(y, k - 1) = 1
              /\ (LowNonZero(y, k - 1) \/ (q % 2) = 1)
    IN  IF up THEN q + 1 ELSE q

-----------------------------------------------------------------------------
(* The bracket tables *)

TaxBracket(max_taxable_income, tax_rate) ==
    [max_taxable_income |-> max_taxable_income, tax_rate |-> tax_rate]

\* default of IncomeTaxCalculator.tax_brackets_deduction_calculator
IncomeTaxBrackets ==
    << TaxBracket(6450, 100), TaxBracket(9240, 140), TaxBracket(14840, 200),
       TaxBracket(20620, 310), TaxBracket(42910, 350), TaxBracket(55270, 470),
       TaxBracket(SysMaxsize, 500) >>

\* Variant: the second bracket has no upper limit.
NationalInsuranceBracketsUnbounded == << TaxBracket(6331, 4), TaxBracket(SysMaxsize, 70) >>

\* default of NationalInsuranceCalculator.tax_brackets_deduction_calculator
NationalInsuranceBrackets == << TaxBracket(6331, 4), TaxBracket(44020, 70) >>

\* default of HealthInsuranceCalculator.tax_brackets_deduction_calculator
HealthInsuranceBrackets == << TaxBracket(6331, 31), TaxBracket(44020, 50) >>

\* a custom table for a generic calculator used as a pipeline rule
SampleBrackets == << TaxBracket(5000, 100), TaxBracket(20000, 300) >>

\* tax-point counts in hundredths: 0, the default 2.25, and 6
TaxPoints == {0, 225, 600}

-----------------------------------------------------------------------------
(* Arithmetic of the program's expressions, in either arithmetic *)

\* the float literals of the pipeline's rates, each read as the nearest double
RateLiterals ==
    UNION { { t[i].tax_rate : i \in 1..Len(t) } :
            t \in { IncomeTaxBrackets, NationalInsuranceBrackets,
                    HealthInsuranceBrackets, SampleBrackets } }
        \cup { PensionRate }

RateDoubles == { << rate, NearestDouble(rate, 1000) >> : rate \in RateLiterals }

RateDouble(rate) == (CHOOSE entry \in RateDoubles : entry[1] = rate)[2]

\* --tax_points, type=float
PointsDoubles == { << points, NearestDouble(points, 100) >> : points \in TaxPoints }

PointsDouble(points) == (CHOOSE entry \in PointsDoubles : entry[1] = points)[2]

\* an int used where the program adds to or subtracts from it a float
NumOfInt(arith, n) == IF arith = "exact" THEN n * 1000 ELSE DoubleOfInt(n)

NumAdd(arith, a, b) == IF arith = "exact" THEN a + b ELSE DoubleAdd(a, b)

NumSub(arith, a, b) == IF arith = "exact" THEN a - b ELSE DoubleSub(a, b)

\* int * rate
NumMulRate(arith, n, rate) ==
    IF arith = "exact" THEN n * rate ELSE DoubleMulInt(n, RateDouble(rate))

\* int * tax_points
NumMulPoints(arith, n, points) ==
    IF arith = "exact" THEN n * points * 10 ELSE DoubleMulInt(n, PointsDouble(points))

-----------------------------------------------------------------------------
(* TaxBracketsDeductionCalculator.calculate *)

\* Variant: `deduction = bracket_tax_deduction` in place of `+=`.
RECURSIVE CalculateLoopOverwrite(_, _, _, _, _, _, _)
CalculateLoopOverwrite(arith, brackets, k, gross, last_max_taxable_income, deduction, taxable) ==
    IF k > Len(brackets)
    THEN [deduction |-> deduction, taxable |-> taxable]
    ELSE IF gross >= last_max_taxable_income
    THEN LET bracket_taxable_income ==
                 Min(gross, brackets[k].max_taxable_income) - last_max_taxable_income
             bracket_tax_deduction ==
                 NumMulRate(arith, bracket_taxable_income, brackets[k].tax_rate)
         IN  CalculateLoopOverwrite(arith, brackets, k + 1, gross, brackets[k].max_taxable_income,
                 bracket_tax_deduction,
                 Append(taxable, bracket_taxable_income))
    ELSE [deduction |-> deduction, taxable |-> taxable]

\* Variant: the rate is left out, `deduction += bracket_taxable_income`.
RECURSIVE CalculateLoopNoRate(_, _, _, _, _, _, _)
CalculateLoopNoRate(arith, brackets, k, gross, last_max_taxable_income, deduction, taxable) ==
    IF k > Len(brackets)
    THEN [deduction |-> deduction, taxable |-> taxable]
    ELSE IF gross >= last_max_taxable_income
    THEN LET bracket_taxable_income ==
                 Min(gross, brackets[k].max_taxable_income) - last_max_taxable_income
         IN  CalculateLoopNoRate(arith, brackets, k + 1, gross, brackets[k].max_taxable_income,
                 NumAdd(arith, deduction, NumOfInt(arith, bracket_taxable_income)),
                 Append(taxable, bracket_taxable_income))
    ELSE [deduction |-> deduction, taxable |-> taxable]

\* Variant: no `if gross_salary >= last_max_taxable_income`, every bracket is visited.
RECURSIVE CalculateLoopNoBreak(_, _, _, _, _, _, _)
CalculateLoopNoBreak(arith, brackets, k, gross, last_max_taxable_income, deduction, taxable) ==
    IF k > Len(brackets)
    THEN [deduction |-> deduction, taxable |-> taxable]
    ELSE LET bracket_taxable_income ==
                 Min(gross, brackets[k].max_taxable_income) - last_max_taxable_income
             bracket_tax_deduction ==
                 NumMulRate(arith, bracket_taxable_income, brackets[k].tax_rate)
         IN  CalculateLoopNoBreak(arith, brackets, k + 1, gross, brackets[k].max_taxable_income,
                 NumAdd(arith, deduction, bracket_tax_deduction),
                 Append(taxable, bracket_taxable_income))

\* Variant: no min(), the bracket is charged on all income above its lower bound.
RECURSIVE CalculateLoopNoMin(_, _, _, _, _, _, _)
CalculateLoopNoMin(arith, brackets, k, gross, last_max_taxable_income, deduction, taxable) ==
    IF k > Len(brackets)
    THEN [deduction |-> deduction, taxable |-> taxable]
    ELSE IF gross >= last_max_taxable_income
    THEN LET bracket_taxable_income ==
                 gross - last_max_taxable_income
             bracket_tax_deduction ==
                 NumMulRate(arith, bracket_taxable_income, brackets[k].tax_rate)
         IN  CalculateLoopNoMin(arith, brackets, k + 1, gross, brackets[k].max_taxable_income,
                 NumAdd(arith, deduction, bracket_tax_deduction),
                 Append(taxable, bracket_taxable_income))
    ELSE [deduction |-> deduction, taxable |-> taxable]

\* The for loop from bracket k on, with the locals last_max_taxable_income and
\* deduction; `taxable` collects the values bracket_taxable_income takes.
RECURSIVE CalculateLoop(_, _, _, _, _, _, _)
CalculateLoop(arith, brackets, k, gross, last_max_taxable_income, deduction, taxable) ==
    IF k > Len(brackets)
    THEN [deduction |-> deduction, taxable |-> taxable]
    ELSE IF gross >= last_max_taxable_income
    THEN LET bracket_taxable_income ==
                 Min(gross, brackets[k].max_taxable_income) - last_max_taxable_income
             bracket_tax_deduction ==
                 NumMulRate(arith, bracket_taxable_income, brackets[k].tax_rate)
         IN  CalculateLoop(arith, brackets, k + 1, gross, brackets[k].max_taxable_income,
                 NumAdd(arith, deduction, bracket_tax_deduction),
                 Append(taxable, bracket_taxable_income))
    ELSE [deduction |-> deduction, taxable |-> taxable]   \* break

TaxBracketsCalculate(arith, brackets, gross) ==
    CalculateLoop(arith, brackets, 1, gross, 0, NumOfInt(arith, 0), <<>>)

-----------------------------------------------------------------------------
(* The deduction rules *)

\* A rule object: its class and its dataclass fields.
IncomeTaxCalculator(tax_points) ==
    [kind |-> "IncomeTax", tax_points |-> tax_points, tax_brackets |-> IncomeTaxBrackets]

NationalInsuranceCalculator ==
    [kind |-> "NationalInsurance", tax_points |-> 0, tax_brackets |-> NationalInsuranceBrackets]

HealthInsuranceCalculator ==
    [kind |-> "HealthInsurance", tax_points |-> 0, tax_brackets |-> HealthInsuranceBrackets]

MandatoryPensionSavingsCalculator ==
    [kind |-> "MandatoryPension", tax_points |-> 0, tax_brackets |-> <<>>]

TaxBracketsDeductionCalculator(brackets) ==
    [kind |-> "TaxBrackets", tax_points |-> 0, tax_brackets |-> brackets]

\* Variant: the result is clamped at zero.
IncomeTaxCalculateClamped(arith, rule, gross) ==
    LET amount == NumSub(arith, TaxBracketsCalculate(arith, rule.tax_brackets, gross).deduction,
                         NumMulPoints(arith, TAX_POINT_VALUE, rule.tax_points))
        negative == IF arith = "exact" THEN amount < 0 ELSE amount.s < 0
    IN  IF negative THEN NumOfInt(arith, 0) ELSE amount

\* IncomeTaxCalculator.calculate
IncomeTaxCalculate(arith, rule, gross) ==
    NumSub(arith, TaxBracketsCalculate(arith, rule.tax_brackets, gross).deduction,
           NumMulPoints(arith, TAX_POINT_VALUE, rule.tax_points))

NationalInsuranceCalculate(arith, rule, gross) ==
    TaxBracketsCalculate(arith, rule.tax_brackets, gross).deduction

HealthInsuranceCalculate(arith, rule, gross) ==
    TaxBracketsCalculate(arith, rule.tax_brackets, gross).deduction

\* gross_salary * 0.06
MandatoryPensionCalculate(arith, rule, gross) == NumMulRate(arith, gross, PensionRate)

\* deduction_calculator.calculate(gross_salary), dispatched on the rule's class
RuleCalculate(arith, rule, gross) ==
    CASE rule.kind = "IncomeTax"         -> IncomeTaxCalculate(arith, rule, gross)
      [] rule.kind = "NationalInsurance" -> NationalInsuranceCalculate(arith, rule, gross)
      [] rule.kind = "HealthInsurance"   -> HealthInsuranceCalculate(arith, rule, gross)
      [] rule.kind = "MandatoryPension"  -> MandatoryPensionCalculate(arith, rule, gross)
      [] rule.kind = "TaxBrackets"       ->
             TaxBracketsCalculate(arith, rule.tax_brackets, gross).deduction

\* what the rule returns: the double, and the exact value of the same expression
RuleCalculateBoth(rule, gross) ==
    [exact |-> RuleCalculate("exact", rule, gross),
     double |-> RuleCalculate("double", rule, gross)]

\* f'{deduction_calculator}': __repr__ of the rule; the generic calculator keeps
\* the dataclass repr, which prints its fields.
Repr(rule) ==
    CASE rule.kind = "IncomeTax"         -> << "Income tax" >>
      [] rule.kind = "NationalInsurance" -> << "National insurance" >>
      [] rule.kind = "HealthInsurance"   -> << "Health insurance" >>
      [] rule.kind = "MandatoryPension"  -> << "Mandatory pension savings" >>
      [] rule.kind = "TaxBrackets"       ->
             << "TaxBracketsDeductionCalculator", rule.tax_brackets >>

\* f'{deduction:.2f}' of a float: the sign and the hundredths printed
Format2(amount) ==
    [sign |-> IF amount.s < 0 THEN "-" ELSE "", cents |-> Hundredths(amount)]

-----------------------------------------------------------------------------
(* Inputs *)

\* bracket bounds and rates (in thousandths) offered to the generic
\* calculator's constructor, which accepts any: bounds in any order, rates
\* below 0 and above 1 included
BoundValues == {-1, 0, 1, 3, SysMaxsize}

RateValues == {-500, 0, 500, 1000, 1500}

SeqsUpTo(S, n) == UNION { [1..k -> S] : k \in 0..n }

BracketTables ==
    SeqsUpTo({ TaxBracket(b, r) : b \in BoundValues, r \in RateValues }, MaxBrackets)

SmallGross == (-MaxGross)..MaxGross

\* gross salaries handed to the pipeline: below, on and above the bounds 6331 and 44020
GrossSalaries == {-1, 0, 6331, 6332, 10000, 44020, 44021, 60000}

Rules ==
    { IncomeTaxCalculator(tp) : tp \in TaxPoints }
        \cup { NationalInsuranceCalculator, HealthInsuranceCalculator,
               MandatoryPensionSavingsCalculator,
               TaxBracketsDeductionCalculator(SampleBrackets) }

Permutations(n) == { p \in [1..n -> 1..n] : \A i, j \in 1..n : p[i] = p[j] => i = j }

Permuted(s, p) == [i \in 1..Len(s) |-> s[p[i]]]

-----------------------------------------------------------------------------
(* State machine *)

\* the int 0 in both arithmetics
Zero == [exact |-> NumOfInt("exact", 0), double |-> NumOfInt("double", 0)]

\* deduction_calculator.calculate(gross_salary), tabulated once for the rules
\* and gross salaries of the pipeline
RuleAmounts ==
    { << rule, gross, RuleCalculateBoth(rule, gross) >> :
          rule \in Rules, gross \in GrossSalaries }

CalculateOf(rule, gross) ==
    (CHOOSE entry \in RuleAmounts : entry[1] = rule /\ entry[2] = gross)[3]

Init ==
    /\ tax_brackets = <<>>
    /\ constructed = FALSE
    /\ called = FALSE
    /\ call_gross = 0
    /\ call_result = [deduction |-> 0, taxable |-> <<>>]
    /\ deduction_calculators = <<>>
    /\ pc = "init"
    /\ gross_salary = 0
    /\ deductions = Zero
    /\ idx = 1
    /\ calls = <<>>
    /\ log = <<>>
    /\ net_salary = Zero
    /\ run = 1
    /\ prev = [rules |-> <<>>, perm |-> <<>>, gross |-> 0, log |-> <<>>, net |-> Zero]
    /\ created = [by |-> "none", tax_points |-> 0]

\* TaxBracketsDeductionCalculator(brackets): the dataclass constructor stores
\* the list; it validates nothing.  A behaviour follows one calculator.
Construct ==
    /\ ~constructed
    /\ \E brackets \in BracketTables : tax_brackets' = brackets
    /\ constructed' = TRUE
    /\ called' = FALSE
    /\ call_gross' = 0
    /\ call_result' = [deduction |-> 0, taxable |-> <<>>]
    /\ UNCHANGED pipelineVars

\* TaxBracketsDeductionCalculator.calculate(gross) on the constructed calculator
Calculate(gross) ==
    /\ constructed
    /\ called' = TRUE
    /\ call_gross' = gross
    /\ call_result' = TaxBracketsCalculate("exact", tax_brackets, gross)
    /\ UNCHANGED <<tax_brackets, constructed>>
    /\ UNCHANGED pipelineVars

\* NetSalaryCalculator(deduction_calculators)
NewNetSalaryCalculator ==
    /\ pc = "init"
    /\ \E rules \in SeqsUpTo(Rules, MaxRules) : deduction_calculators' = rules
    /\ created' = [by |-> "constructor", tax_points |-> 0]
    /\ pc' = "ready"
    /\ UNCHANGED <<gross_salary, deductions, idx, calls, log, net_salary, run, prev>>
    /\ UNCHANGED engineVars

\* Variant: health insurance listed before national insurance.
FactoryRulesSwapped(tax_points) ==
    << IncomeTaxCalculator(tax_points), HealthInsuranceCalculator,
       NationalInsuranceCalculator, MandatoryPensionSavingsCalculator >>

\* the rule list NetSalaryCalculatorFactory.create builds
FactoryRules(tax_points) ==
    << IncomeTaxCalculator(tax_points), NationalInsuranceCalculator,
       HealthInsuranceCalculator, MandatoryPensionSavingsCalculator >>

\* NetSalaryCalculatorFactory.create(tax_points)
Create(tax_points) ==
    /\ pc = "init"
    /\ deduction_calculators' = FactoryRules(tax_points)
    /\ created' = [by |-> "factory", tax_points |-> tax_points]
    /\ pc' = "ready"
    /\ UNCHANGED <<gross_salary, deductions, idx, calls, log, net_salary, run, prev>>
    /\ UNCHANGED engineVars

\* NetSalaryCalculator.calculate(gross): entry, deductions = 0.  The permuted
\* pipeline is called with the gross salary the first one was called with.
CalculateBegin(gross) ==
    /\ pc = "ready"
    /\ run = 2 => gross = prev.gross
    /\ gross_salary' = gross
    /\ deductions' = Zero
    /\ idx' = 1
    /\ calls' = <<>>
    /\ log' = <<>>
    /\ pc' = "loop"
    /\ UNCHANGED <<deduction_calculators, net_salary, run, prev, created>>
    /\ UNCHANGED engineVars

\* Variant: each rule is called with what is left of the gross salary after
\* the deductions so far (whole currency units).
CalculateStepReduced ==
    /\ pc = "loop"
    /\ idx <= Len(deduction_calculators)
    /\ LET deduction_calculator == deduction_calculators[idx]
           remaining == (gross_salary * 1000 - deductions.exact) \div 1000
           deduction == RuleCalculateBoth(deduction_calculator, remaining)
       IN  /\ calls' = Append(calls, [rule |-> deduction_calculator,
                                      arg |-> remaining,
                                      returned |-> deduction])
           /\ deductions' = [exact |-> NumAdd("exact", deductions.exact, deduction.exact),
                             double |-> NumAdd("double", deductions.double, deduction.double)]
           /\ log' = Append(log, [name |-> Repr(deduction_calculator),
                                  amount |-> Format2(deduction.double)])
    /\ idx' = idx + 1
    /\ UNCHANGED <<deduction_calculators, pc, gross_salary, net_salary, run, prev, created>>
    /\ UNCHANGED engineVars

\* Variant: the record carries the running total `deductions`, not `deduction`.
CalculateStepLogsTotal ==
    /\ pc = "loop"
    /\ idx <= Len(deduction_calculators)
    /\ LET deduction_calculator == deduction_calculators[idx]
           deduction == CalculateOf(deduction_calculator, gross_salary)
       IN  /\ calls' = Append(calls, [rule |-> deduction_calculator,
                                      arg |-> gross_salary,
                                      returned |-> deduction])
           /\ deductions' = [exact |-> NumAdd("exact", deductions.exact, deduction.exact),
                             double |-> NumAdd("double", deductions.double, deduction.double)]
           /\ log' = Append(log, [name |-> Repr(deduction_calculator),
                                  amount |-> Format2(NumAdd("double", deductions.double,
                                                            deduction.double))])
    /\ idx' = idx + 1
    /\ UNCHANGED <<deduction_calculators, pc, gross_salary, net_salary, run, prev, created>>
    /\ UNCHANGED engineVars

\* one iteration of the for loop: call the rule, add, log
CalculateStep ==
    /\ pc = "loop"
    /\ idx <= Len(deduction_calculators)
    /\ LET deduction_calculator == deduction_calculators[idx]
           deduction == CalculateOf(deduction_calculator, gross_salary)
       IN  /\ calls' = Append(calls, [rule |-> deduction_calculator,
                                      arg |-> gross_salary,
                                      returned |-> deduction])
           /\ deductions' = [exact |-> NumAdd("exact", deductions.exact, deduction.exact),
                             double |-> NumAdd("double", deductions.double, deduction.double)]
           /\ log' = Append(log, [name |-> Repr(deduction_calculator),
                                  amount |-> Format2(deduction.double)])
    /\ idx' = idx + 1
    /\ UNCHANGED <<deduction_calculators, pc, gross_salary, net_salary, run, prev, created>>
    /\ UNCHANGED engineVars

\* loop exhausted: return gross_salary - deductions
CalculateReturn ==
    /\ pc = "loop"
    /\ idx > Len(deduction_calculators)
    /\ net_salary' =
           [exact |-> NumSub("exact", NumOfInt("exact", gross_salary), deductions.exact),
            double |-> NumSub("double", NumOfInt("double", gross_salary), deductions.double)]
    /\ pc' = "done"
    /\ UNCHANGED <<deduction_calculators, gross_salary, deductions, idx, calls, log, run, prev, created>>
    /\ UNCHANGED engineVars

\* A second NetSalaryCalculator over the same rule objects in the order p,
\* built once the first has returned; the first one's outcome is kept.
NewPermutedCalculator(p) ==
    /\ pc = "done"
    /\ run = 1
    /\ prev' = [rules |-> deduction_calculators, perm |-> p, gross |-> gross_salary,
                log |-> log, net |-> net_salary]
    /\ deduction_calculators' = Permuted(deduction_calculators, p)
    /\ run' = 2
    /\ pc' = "ready"
    /\ UNCHANGED <<gross_salary, deductions, idx, calls, log, net_salary, created>>
    /\ UNCHANGED engineVars

\* The bracket engine on its own: any table, any gross salary.
Next ==
    \/ Construct
    \/ \E gross \in SmallGross : Calculate(gross)

Spec == Init /\ [][Next]_vars

\* The pipeline: built directly or by the factory, then calculate().
PipelineNext ==
    \/ NewNetSalaryCalculator
    \/ \E tax_points \in TaxPoints : Create(tax_points)
    \/ \E gross \in GrossSalaries : CalculateBegin(gross)
    \/ CalculateStep
    \/ CalculateReturn
    \/ \E p \in Permutations(Len(deduction_calculators)) : NewPermutedCalculator(p)

PipelineSpec == Init /\ [][PipelineNext]_vars

-----------------------------------------------------------------------------
(* Properties of the bracket engine, under Spec.  Deductions are in
   thousandths of a currency unit, rates in thousandths. *)

StrictlyAscending(brackets) ==
    \A i \in 1..(Len(brackets) - 1) :
        brackets[i].max_taxable_income < brackets[i + 1].max_taxable_income

RatesInRange(brackets) ==
    \A i \in 1..Len(brackets) : brackets[i].tax_rate >= 0 /\ brackets[i].tax_rate <= 1000

PositiveBounds(brackets) ==
    \A i \in 1..Len(brackets) : brackets[i].max_taxable_income > 0

ValidTable(brackets) == StrictlyAscending(brackets) /\ RatesInRange(brackets)

SingleUnbounded(brackets) ==
    Len(brackets) = 1 /\ brackets[1].max_taxable_income = SysMaxsize

\* The deduction that visits every bracket i and adds
\* max(0, min(gross, upper_i) - upper_(i-1)) * rate_i, with upper_0 = 0.
ReferenceDeduction(brackets, gross) ==
    SeqSum([i \in 1..Len(brackets) |->
        Max(0, Min(gross, brackets[i].max_taxable_income)
                 - (IF i = 1 THEN 0 ELSE brackets[i - 1].max_taxable_income))
            * brackets[i].tax_rate])

\* C4: a table whose bounds are not strictly increasing, or with a rate outside
\* [0,1], is never held by a constructed calculator (construction fails), so
\* calculate never runs on one and no bracket has a negative taxable income.
C4_InvalidTableRejected ==
    /\ constructed => ValidTable(tax_brackets)
    /\ called => \A i \in 1..Len(call_result.taxable) : call_result.taxable[i] >= 0

\* C5: on a table with strictly ascending bounds and rates in [0,1], the
\* deduction returned for a gross salary g1 >= 0 is at most the deduction of
\* every gross salary g2 >= g1.
C5_MonotoneInGross ==
    (called /\ ValidTable(tax_brackets) /\ call_gross >= 0) =>
        \A g2 \in SmallGross :
            g2 >= call_gross =>
                call_result.deduction <= TaxBracketsCalculate("exact", tax_brackets, g2).deduction

\* C5 witness: a call on a two-bracket valid table with the gross salary exactly
\* on the first bound and a positive deduction.
C5_Witness ==
    /\ called /\ ValidTable(tax_brackets) /\ Len(tax_brackets) = 2
    /\ call_gross = tax_brackets[1].max_taxable_income
    /\ call_gross > 0
    /\ tax_brackets[2].tax_rate < tax_brackets[1].tax_rate
    /\ call_result.deduction > 0

\* C6 as stated: with a single unbounded bracket of rate r, the deduction is
\* gross_salary * r for a gross salary of any sign (r a rate in [0,1]).
C6_FlatRateAnySign ==
    (called /\ SingleUnbounded(tax_brackets) /\ RatesInRange(tax_brackets)) =>
        call_result.deduction = call_gross * tax_brackets[1].tax_rate

\* C6 amended: with a single unbounded bracket of rate r, the deduction is
\* gross_salary * r for every gross salary from 0 up to the bracket's bound,
\* and 0 for every negative gross salary.
C6_FlatRateNonNegative ==
    (called /\ SingleUnbounded(tax_brackets)) =>
        /\ call_gross >= 0 => call_result.deduction = call_gross * tax_brackets[1].tax_rate
        /\ call_gross < 0 => call_result.deduction = 0

\* C6 witness: rate 0.5 on a gross salary of 3 gives 1.5.
C6_Witness ==
    /\ called /\ SingleUnbounded(tax_brackets)
    /\ tax_brackets[1].tax_rate = 500
    /\ call_gross = 3
    /\ call_result.deduction = 1500

\* C7: on a table with strictly ascending positive bounds and rates in [0,1],
\* every gross salary <= 0 has deduction 0.
C7_NonPositiveGrossIsZero ==
    (called /\ ValidTable(tax_brackets) /\ PositiveBounds(tax_brackets) /\ call_gross <= 0) =>
        call_result.deduction = 0

\* C7 witness: a negative gross salary on a two-bracket table with positive rates.
C7_Witness ==
    /\ called /\ ValidTable(tax_brackets) /\ PositiveBounds(tax_brackets)
    /\ Len(tax_brackets) = 2
    /\ \A i \in 1..2 : tax_brackets[i].tax_rate > 0
    /\ call_gross < 0
    /\ call_result.deduction = 0

\* C10 as stated: on every table with strictly ascending bounds (and rates in
\* [0,1], which the property does not need) the loop with
\* the early break returns the reference deduction, and no visited bracket has
\* a negative taxable income.
C10_BreakIsOptimisation ==
    (called /\ StrictlyAscending(tax_brackets) /\ RatesInRange(tax_brackets)) =>
        /\ call_result.deduction = ReferenceDeduction(tax_brackets, call_gross)
        /\ \A i \in 1..Len(call_result.taxable) : call_result.taxable[i] >= 0

\* C10 amended: the same, on every table with strictly ascending bounds whose
\* first bound is not negative.
C10_BreakIsOptimisationNonNegativeBounds ==
    (/\ called
     /\ StrictlyAscending(tax_brackets)
     /\ Len(tax_brackets) > 0 => tax_brackets[1].max_taxable_income >= 0) =>
        /\ call_result.deduction = ReferenceDeduction(tax_brackets, call_gross)
        /\ \A i \in 1..Len(call_result.taxable) : call_result.taxable[i] >= 0

\* C10 witness: the break is taken, a later bracket is left unvisited.
C10_Witness ==
    /\ called /\ StrictlyAscending(tax_brackets)
    /\ Len(tax_brackets) = 2
    /\ tax_brackets[1].max_taxable_income > 0
    /\ \A i \in 1..2 : tax_brackets[i].tax_rate > 0
    /\ call_gross > 0
    /\ Len(call_result.taxable) = 1
    /\ call_result.deduction = ReferenceDeduction(tax_brackets, call_gross)

-----------------------------------------------------------------------------
(* Properties of the pipeline, under PipelineSpec.  x.exact is the value of an
   amount in exact arithmetic, in thousandths; x.double is the float the
   program holds. *)

ReturnedExact == [i \in 1..Len(calls) |-> calls[i].returned.exact]

\* deductions after the first n calls: 0 + d1 + ... + dn, added in this order
RECURSIVE DoubleTotal(_)
DoubleTotal(n) ==
    IF n = 0 THEN DoubleOfInt(0)
    ELSE DoubleAdd(DoubleTotal(n - 1), calls[n].returned.double)

\* C1: calculate(gross) returns gross minus the sum of what each rule's
\* calculate(gross) returns; each configured rule is invoked exactly once, in
\* order, and always with the unmodified gross salary.
C1_NetIsGrossMinusSum ==
    /\ pc \in {"loop", "done"} =>
           /\ Len(calls) = idx - 1
           /\ \A i \in 1..Len(calls) :
                  /\ calls[i].rule = deduction_calculators[i]
                  /\ calls[i].arg = gross_salary
    /\ pc = "done" =>
           /\ Len(calls) = Len(deduction_calculators)
           /\ \A i \in 1..Len(calls) :
                  calls[i].returned = RuleCalculateBoth(deduction_calculators[i], gross_salary)
           /\ net_salary.exact =
                  gross_salary * 1000
                    - SeqSum([i \in 1..Len(deduction_calculators) |->
                                 RuleCalculate("exact", deduction_calculators[i], gross_salary)])
           /\ net_salary.double =
                  DoubleSub(DoubleOfInt(gross_salary), DoubleTotal(Len(calls)))

\* C1 witness: a finished call over two rules that both deduct something.
C1_Witness ==
    /\ pc = "done"
    /\ Len(deduction_calculators) = 2
    /\ gross_salary > 0
    /\ calls[1].returned.exact > 0
    /\ calls[2].returned.exact > 0
    /\ net_salary.exact =
           gross_salary * 1000 - calls[1].returned.exact - calls[2].returned.exact

\* 223 * tax_points
IncomeTaxCredit(arith, tax_points) == NumMulPoints(arith, TAX_POINT_VALUE, tax_points)

\* C2: the income-tax rule returns the bracket deduction minus 223 * tax_points,
\* negative when the credit is the larger; the pipeline adds it unchanged, so a
\* pipeline of that rule alone returns gross - bracket deduction + credit, and
\* the factory's pipeline returns 223 * tax_points at gross 0.
C2_CreditNotClamped ==
    /\ pc = "done" =>
         \A i \in 1..Len(calls) :
           calls[i].rule.kind = "IncomeTax" =>
               /\ calls[i].returned.exact =
                      TaxBracketsCalculate("exact", IncomeTaxBrackets, calls[i].arg).deduction
                        - IncomeTaxCredit("exact", calls[i].rule.tax_points)
               /\ calls[i].returned.double =
                      DoubleSub(
                          TaxBracketsCalculate("double", IncomeTaxBrackets, calls[i].arg).deduction,
                          IncomeTaxCredit("double", calls[i].rule.tax_points))
    /\ (pc = "done" /\ Len(deduction_calculators) = 1
          /\ deduction_calculators[1].kind = "IncomeTax") =>
           net_salary.exact =
               gross_salary * 1000
                 - TaxBracketsCalculate("exact", IncomeTaxBrackets, gross_salary).deduction
                 + IncomeTaxCredit("exact", deduction_calculators[1].tax_points)
    /\ (pc = "done" /\ created.by = "factory" /\ gross_salary = 0) =>
           /\ net_salary.exact = IncomeTaxCredit("exact", created.tax_points)
           /\ net_salary.double = IncomeTaxCredit("double", created.tax_points)

\* C2 witness: the factory's pipeline with 2.25 tax points at gross 0 returns
\* 501.75, the income-tax rule having returned -501.75.
C2_Witness ==
    /\ pc = "done" /\ run = 1
    /\ created = [by |-> "factory", tax_points |-> 225]
    /\ gross_salary = 0
    /\ calls[1].returned.exact = -501750
    /\ calls[1].returned.double.s = -1
    /\ log[1].amount = [sign |-> "-", cents |-> 50175]
    /\ net_salary.exact = 501750

\* first_rate * 6331 + second_rate * (covered - 6331), as the program's
\* expression 6331 * r1 + (covered - 6331) * r2
TwoTier(arith, first_rate, second_rate, covered) ==
    NumAdd(arith, NumMulRate(arith, 6331, first_rate),
                  NumMulRate(arith, covered - 6331, second_rate))

TwoTierBoth(first_rate, second_rate, covered) ==
    [exact |-> TwoTier("exact", first_rate, second_rate, covered),
     double |-> TwoTier("double", first_rate, second_rate, covered)]

TraceFollowsRuleOrder ==
    /\ pc \in {"loop", "done"} => Len(log) = Len(calls)
    /\ pc = "done" =>
           /\ Len(log) = Len(deduction_calculators)
           /\ \A i \in 1..Len(log) :
                  /\ log[i].name = Repr(deduction_calculators[i])
                  /\ log[i].amount = Format2(calls[i].returned.double)
    /\ (pc = "done" /\ run = 2) => log = Permuted(prev.log, prev.perm)

\* C8 as stated: the trace follows the rule order, and the same rules in a
\* permuted order return the same net salary.
C8_PermutationKeepsNetSalary ==
    /\ TraceFollowsRuleOrder
    /\ (pc = "done" /\ run = 2) => net_salary.double = prev.net.double

\* two floats less than 2^-24 apart
Within2ToMinus24(a, b) ==
    LET diff == DoubleSub(a, b)
    IN  \A limb \in 4..NumLimbs : diff.m[limb] = 0

\* C8 amended: the trace follows the rule order, and the same rules in a
\* permuted order return a net salary that is the same in exact arithmetic;
\* the float returned depends on the order of the additions and stays within
\* 2^-24 of the first one.
C8_PermutationKeepsExactNetSalary ==
    /\ TraceFollowsRuleOrder
    /\ (pc = "done" /\ run = 2) =>
           /\ net_salary.exact = prev.net.exact
           /\ Within2ToMinus24(net_salary.double, prev.net.double)

\* C8 witness: the factory's four rules run again in another order; the trace
\* differs from the first one and the exact net salary does not.
C8_Witness ==
    /\ pc = "done" /\ run = 2
    /\ created.by = "factory"
    /\ gross_salary = 10000
    /\ prev.perm = <<4, 3, 1, 2>>
    /\ log # prev.log
    /\ log[1].name = << "Mandatory pension savings" >>
    /\ log[1].amount = [sign |-> "", cents |-> 60000]
    /\ net_salary.exact = prev.net.exact

\* C9: the factory's pipeline is the four rules Income Tax, National Insurance,
\* Health Insurance, Mandatory Pension (gross * 0.06) in that order; tax_points
\* reaches the Income Tax rule only, the other three amounts are functions of
\* the gross salary; for gross 10000 and 2.25 tax points the deductions are, in
\* exact arithmetic, 685.85, 282.154, 379.711 and 600, in total 1947.715, and
\* the net salary is 8052.285.
C9_FactoryPipeline ==
    (created.by = "factory" /\ run = 1) =>
        /\ [i \in 1..Len(deduction_calculators) |-> deduction_calculators[i].kind]
               = << "IncomeTax", "NationalInsurance", "HealthInsurance", "MandatoryPension" >>
        /\ deduction_calculators[1].tax_points = created.tax_points
        /\ pc = "done" =>
               /\ calls[2].returned =
                      [exact |-> TaxBracketsCalculate("exact", NationalInsuranceBrackets,
                                                      gross_salary).deduction,
                       double |-> TaxBracketsCalculate("double", NationalInsuranceBrackets,
                                                       gross_salary).deduction]
               /\ calls[3].returned =
                      [exact |-> TaxBracketsCalculate("exact", HealthInsuranceBrackets,
                                                      gross_salary).deduction,
                       double |-> TaxBracketsCalculate("double", HealthInsuranceBrackets,
                                                       gross_salary).deduction]
               /\ calls[4].returned =
                      [exact |-> gross_salary * PensionRate,
                       double |-> DoubleMulInt(gross_salary, RateDouble(PensionRate))]
        /\ (pc = "done" /\ gross_salary = 10000 /\ created.tax_points = 225) =>
               /\ ReturnedExact = << 685850, 282154, 379711, 600000 >>
               /\ deductions.exact = 1947715
               /\ net_salary.exact = 8052285

\* C9 witness: the factory's pipeline with 2.25 tax points has returned for
\* gross 10000; the trace shows 685.85, 282.15, 379.71 and 600.00.
C9_Witness ==
    /\ pc = "done" /\ run = 1
    /\ created = [by |-> "factory", tax_points |-> 225]
    /\ gross_salary = 10000
    /\ [i \in 1..Len(log) |-> log[i].amount.cents] = << 68585, 28215, 37971, 60000 >>
    /\ net_salary.exact = 8052285

=============================================================================
